---------------------------- MODULE Spec2Model ----------------------------
(***************************************************************************)
(* Model of the question-answering pipeline of src/main.py: the /query     *)
(* handler create_query and its three stages generate_kubernetes_command,  *)
(* execute_generated_command and format_result_with_gpt.                   *)
(*                                                                         *)
(* The server runs single-threaded (app.run(..., threaded=False)), so one  *)
(* request is in progress at a time.  The handler is split at its three    *)
(* blocking calls: the synthesis model call, the exec of the generated     *)
(* command (which talks to the cluster through v1) and the summarization   *)
(* model call.  Python strings are sequences of one-character strings, so  *)
(* that strip, replace and the substring test "Error" in x are computed. *)
(*                                                                         *)
(* The two model calls and the cluster are stubs: a model call returns any *)
(* of a fixed set of messages or raises, and exec is given by its effect   *)
(* on each of the command texts the synthesis stub can return.  The module *)
(* is taken as loaded (line 25 uses os, which the file never imports).     *)
(***************************************************************************)
EXTENDS Integers, Sequences, FiniteSets, TLC

(***************************************************************************)
(* Bounds                                                                  *)
(***************************************************************************)
\* number of requests served in one behaviour
MaxRequests == 2
\* number of pods in namespace 'test' when the server starts
NumPods == 3

(***************************************************************************)
(* String literals of the source, the cluster and the stubbed model        *)
(***************************************************************************)
\* the backquote character (written as a word: a backquote inside a string
\* literal is not accepted by the parser)
BQ == "backquote"

\* 'Error'
ErrorStr ==
    <<"E","r","r","o","r">>

\* 'BQBQBQpython'
FencePython ==
    <<BQ,BQ,BQ,"p","y","t","h","o","n">>

\* 'BQBQBQ'
Fence ==
    <<BQ,BQ,BQ>>

\* 'No result returned'
NoResultReturned ==
    <<"N","o"," ","r","e","s","u","l","t"," ","r","e","t","u","r","n","e",
      "d">>

\* 'Kubernetes client method not supported on Minikube.'
MethodNotSupported ==
    <<"K","u","b","e","r","n","e","t","e","s"," ","c","l","i","e","n","t",
      " ","m","e","t","h","o","d"," ","n","o","t"," ","s","u","p","p","o",
      "r","t","e","d"," ","o","n"," ","M","i","n","i","k","u","b","e",".">>

\* 'Error executing command: '
ErrorExecutingPrefix ==
    <<"E","r","r","o","r"," ","e","x","e","c","u","t","i","n","g"," ","c",
      "o","m","m","a","n","d",":"," ">>

\* 'Error formatting answer.'
ErrorFormattingAnswer ==
    <<"E","r","r","o","r"," ","f","o","r","m","a","t","t","i","n","g"," ",
      "a","n","s","w","e","r",".">>

\* 'No query provided'
NoQueryProvided ==
    <<"N","o"," ","q","u","e","r","y"," ","p","r","o","v","i","d","e","d">>

\* 'Failed to generate command'
FailedToGenerate ==
    <<"F","a","i","l","e","d"," ","t","o"," ","g","e","n","e","r","a","t",
      "e"," ","c","o","m","m","a","n","d">>

\* "'list' object has no attribute 'get'"
ListHasNoGet ==
    <<"'","l","i","s","t","'"," ","o","b","j","e","c","t"," ","h","a","s",
      " ","n","o"," ","a","t","t","r","i","b","u","t","e"," ","'","g","e",
      "t","'">>

\* "argument of type 'int' is not iterable"
IntNotIterable ==
    <<"a","r","g","u","m","e","n","t"," ","o","f"," ","t","y","p","e"," ",
      "'","i","n","t","'"," ","i","s"," ","n","o","t"," ","i","t","e","r",
      "a","b","l","e">>

\* 'str type expected'
StrTypeExpected ==
    <<"s","t","r"," ","t","y","p","e"," ","e","x","p","e","c","t","e","d">>

\* '(404) Reason: Not Found'
NotFoundMsg ==
    <<"(","4","0","4",")"," ","R","e","a","s","o","n",":"," ","N","o","t",
      " ","F","o","u","n","d">>

\* 'invalid syntax (<string>, line 1)'
SyntaxMsg ==
    <<"i","n","v","a","l","i","d"," ","s","y","n","t","a","x"," ","(","<",
      "s","t","r","i","n","g",">",","," ","l","i","n","e"," ","1",")">>

\* "result = len(v1.list_namespaced_pod('test').items)"
CmdCountInt ==
    <<"r","e","s","u","l","t"," ","="," ","l","e","n","(","v","1",".","l",
      "i","s","t","_","n","a","m","e","s","p","a","c","e","d","_","p","o",
      "d","(","'","t","e","s","t","'",")",".","i","t","e","m","s",")">>

\* "result = str(len(v1.list_namespaced_pod('test').items))"
CmdCountStr ==
    <<"r","e","s","u","l","t"," ","="," ","s","t","r","(","l","e","n","(",
      "v","1",".","l","i","s","t","_","n","a","m","e","s","p","a","c","e",
      "d","_","p","o","d","(","'","t","e","s","t","'",")",".","i","t","e",
      "m","s",")",")">>

\* "result = [p.metadata.name for p in v1.list_namespaced_pod('test').items]"
CmdNames ==
    <<"r","e","s","u","l","t"," ","="," ","[","p",".","m","e","t","a","d",
      "a","t","a",".","n","a","m","e"," ","f","o","r"," ","p"," ","i","n",
      " ","v","1",".","l","i","s","t","_","n","a","m","e","s","p","a","c",
      "e","d","_","p","o","d","(","'","t","e","s","t","'",")",".","i","t",
      "e","m","s","]">>

\* "result = v1.read_namespaced_pod('pod-1', 'test').status.container_statuses[0].state.terminated.reason"
CmdReason ==
    <<"r","e","s","u","l","t"," ","="," ","v","1",".","r","e","a","d","_",
      "n","a","m","e","s","p","a","c","e","d","_","p","o","d","(","'","p",
      "o","d","-","1","'",","," ","'","t","e","s","t","'",")",".","s","t",
      "a","t","u","s",".","c","o","n","t","a","i","n","e","r","_","s","t",
      "a","t","u","s","e","s","[","0","]",".","s","t","a","t","e",".","t",
      "e","r","m","i","n","a","t","e","d",".","r","e","a","s","o","n">>

\* "v1.delete_namespaced_pod('pod-1', 'test'); result = 'deleted'"
CmdDelete ==
    <<"v","1",".","d","e","l","e","t","e","_","n","a","m","e","s","p","a",
      "c","e","d","_","p","o","d","(","'","p","o","d","-","1","'",","," ",
      "'","t","e","s","t","'",")",";"," ","r","e","s","u","l","t"," ","=",
      " ","'","d","e","l","e","t","e","d","'">>

\* "pods = v1.list_namespaced_pod('test')"
CmdNoResult ==
    <<"p","o","d","s"," ","="," ","v","1",".","l","i","s","t","_","n","a",
      "m","e","s","p","a","c","e","d","_","p","o","d","(","'","t","e","s",
      "t","'",")">>

\* 'result = v1.list_pods()'
CmdBadAttr ==
    <<"r","e","s","u","l","t"," ","="," ","v","1",".","l","i","s","t","_",
      "p","o","d","s","(",")">>

\* "result = v1.read_namespaced_pod('nope', 'test').status.phase"
CmdNotFound ==
    <<"r","e","s","u","l","t"," ","="," ","v","1",".","r","e","a","d","_",
      "n","a","m","e","s","p","a","c","e","d","_","p","o","d","(","'","n",
      "o","p","e","'",","," ","'","t","e","s","t","'",")",".","s","t","a",
      "t","u","s",".","p","h","a","s","e">>

\* 'while True: pass'
CmdHang ==
    <<"w","h","i","l","e"," ","T","r","u","e",":"," ","p","a","s","s">>

\* "global v1; v1 = None; result = 'reset'"
CmdGlobal ==
    <<"g","l","o","b","a","l"," ","v","1",";"," ","v","1"," ","="," ","N",
      "o","n","e",";"," ","r","e","s","u","l","t"," ","="," ","'","r","e",
      "s","e","t","'">>

\* "global n; n = globals().get('n', 0) + 1; result = str(n)"
CmdCounter ==
    <<"g","l","o","b","a","l"," ","n",";"," ","n"," ","="," ","g","l","o",
      "b","a","l","s","(",")",".","g","e","t","(","'","n","'",","," ","0",
      ")"," ","+"," ","1",";"," ","r","e","s","u","l","t"," ","="," ","s",
      "t","r","(","n",")">>

\* 'I cannot answer that'
CmdProse ==
    <<"I"," ","c","a","n","n","o","t"," ","a","n","s","w","e","r"," ","t",
      "h","a","t">>

\* 'deleted'
DeletedStr ==
    <<"d","e","l","e","t","e","d">>

\* 'reset'
ResetStr ==
    <<"r","e","s","e","t">>

\* 'pod-'
PodPrefix ==
    <<"p","o","d","-">>

\* 'Completed'
CompletedStr ==
    <<"C","o","m","p","l","e","t","e","d">>

\* 'how many pods are in namespace test'
QuestionCount ==
    <<"h","o","w"," ","m","a","n","y"," ","p","o","d","s"," ","a","r","e",
      " ","i","n"," ","n","a","m","e","s","p","a","c","e"," ","t","e","s",
      "t">>

\* '   '
QuestionBlank ==
    <<" "," "," ">>

\* 'pods'
QuestionItem ==
    <<"p","o","d","s">>

\* '3'
AnswerThree ==
    <<"3">>

\* ' 3\n'
AnswerPadded ==
    <<" ","3","\n">>

\* 'Running'
AnswerRunning ==
    <<"R","u","n","n","i","n","g">>

\* 'The pod is in Error state'
AnswerErrorState ==
    <<"T","h","e"," ","p","o","d"," ","i","s"," ","i","n"," ","E","r","r",
      "o","r"," ","s","t","a","t","e">>

\* 'v1.delete_'
MutatingCall ==
    <<"v","1",".","d","e","l","e","t","e","_">>

\* 'v1.'
GatewayRef ==
    <<"v","1",".">>

(***************************************************************************)
(* Python string operations                                                *)
(***************************************************************************)
\* characters removed by str.strip()
Whitespace == {" ", "\n", "\t"}

\* positions of the characters of s that are not whitespace
Inked(s) == {i \in 1..Len(s) : s[i] \notin Whitespace}

\* str.strip(): drop the leading and trailing whitespace
strip(s) ==
    IF Inked(s) = {} THEN <<>>
    ELSE SubSeq(s, CHOOSE i \in Inked(s) : \A j \in Inked(s) : i <= j,
                   CHOOSE i \in Inked(s) : \A j \in Inked(s) : j <= i)

\* positions at which sub occurs in s
Occurrences(s, sub) ==
    {i \in 1..(Len(s) - Len(sub) + 1) : SubSeq(s, i, i + Len(sub) - 1) = sub}

\* sub in s, for two strings
contains(s, sub) == Occurrences(s, sub) # {}

\* s.replace(old, ""), old non-empty: the leftmost occurrence is dropped,
\* then the occurrences in the rest of the string
RECURSIVE remove(_, _)
remove(s, old) ==
    IF Occurrences(s, old) = {} THEN s
    ELSE LET i == CHOOSE j \in Occurrences(s, old) :
                       \A k \in Occurrences(s, old) : j <= k
         IN  SubSeq(s, 1, i - 1)
               \o remove(SubSeq(s, i + Len(old), Len(s)), old)

\* str(n) for 0 <= n <= 9
Digits == <<"0", "1", "2", "3", "4", "5", "6", "7", "8", "9">>
str(n) == <<Digits[n + 1]>>

(***************************************************************************)
(* Python values: a type tag and the strings the value is made of          *)
(***************************************************************************)
NoneVal == [t |-> "none", items |-> <<>>]
StrVal(s) == [t |-> "str", items |-> <<s>>]
IntVal(n) == [t |-> "int", items |-> <<str(n)>>]
ListVal(l) == [t |-> "list", items |-> l]

\* truthiness, as in if not x
truthy(x) ==
    CASE x.t = "none" -> FALSE
      [] x.t = "str" -> x.items[1] # <<>>
      [] x.t = "int" -> x.items[1] # str(0)
      [] x.t = "list" -> x.items # <<>>

\* "Error" in x: substring test on a string, membership on a list,
\* TypeError on an int or None
ErrorIn(x) ==
    CASE x.t = "str" -> IF contains(x.items[1], ErrorStr) THEN "yes" ELSE "no"
      [] x.t = "list" ->
           IF \E i \in 1..Len(x.items) : x.items[i] = ErrorStr
           THEN "yes" ELSE "no"
      [] OTHER -> "TypeError"

(***************************************************************************)
(* Stubs of the collaborators: request bodies, model responses, cluster    *)
(***************************************************************************)
\* a fenced model response: fence, newline, code, newline, fence
Fenced(text) == FencePython \o <<"\n">> \o text \o <<"\n">> \o Fence

\* a model response in which removing the python fence leaves a new fence
NestedFence(text) == <<BQ, BQ>> \o FencePython \o <<BQ>> \o text

\* a model response with surrounding whitespace
Padded(text) == <<" ">> \o text \o <<"\n">>

\* JSON bodies of POST /query: obj says whether the body is a JSON object,
\* query is what request_data.get('query') returns (None when absent)
Bodies ==
    { [obj |-> FALSE, query |-> NoneVal],
      [obj |-> TRUE, query |-> NoneVal],
      [obj |-> TRUE, query |-> StrVal(<<>>)],
      [obj |-> TRUE, query |-> StrVal(QuestionBlank)],
      [obj |-> TRUE, query |-> StrVal(QuestionCount)],
      [obj |-> TRUE, query |-> ListVal(<<QuestionItem>>)] }

\* message contents the synthesis model call may return
SynthContents ==
    { <<>>, QuestionBlank, Fence,
      CmdCountInt, CmdCountStr, Fenced(CmdCountStr), Padded(CmdNames),
      CmdReason, CmdDelete, CmdNoResult, CmdBadAttr, CmdNotFound,
      CmdHang, CmdGlobal, CmdCounter, CmdProse, NestedFence(CmdProse) }

\* message contents the summarization model call may return
SummContents ==
    { <<>>, AnswerThree, AnswerPadded, AnswerRunning, AnswerErrorState }

\* outcome of openai.ChatCompletion.create: it raises, or returns a message
ModelOutcomes(contents) ==
    { [raises |-> TRUE, content |-> <<>>] }
      \cup { [raises |-> FALSE, content |-> c] : c \in contents }

\* reasons the cluster reports for the terminated container of pod-1
PodReasons == { CompletedStr, ErrorStr }

\* names of the pods in ps, in ascending order
RECURSIVE PodNames(_)
PodNames(ps) ==
    IF ps = {} THEN <<>>
    ELSE LET i == CHOOSE j \in ps : \A k \in ps : j <= k
         IN  <<PodPrefix \o str(i)>> \o PodNames(ps \ {i})

(***************************************************************************)
(* State                                                                   *)
(***************************************************************************)
VARIABLES
    v1,            \* module global v1: "client", or "None" when config failed
    global_n,      \* module global n, which executed code may create (0: unset)
    pods,          \* cluster: the pods of namespace 'test'
    podReason,     \* cluster: terminated reason of pod-1's container
    pc,            \* position of the handler for the current request
    served,        \* number of requests received so far
    request,       \* body of the current request
    command,       \* create_query's local command
    code,          \* execute_generated_command's local command (line 101)
    raw_result,    \* create_query's local raw_result
    answer,        \* create_query's local answer
    response,      \* response sent for the current request
    responses,     \* number of responses sent for the current request
    synthCalls,    \* synthesis model calls made for the current request
    execCalls,     \* exec() calls made for the current request
    summCalls,     \* summarization model calls made for the current request
    gatewayReads,  \* read operations invoked on v1 for the current request
    gatewayWrites, \* mutating operations invoked on v1 for the current request
    synthKind,     \* how the synthesis call ended: none, ok, raised
    execKind,      \* how exec ended: none, ok, unbound, attr, exc, hang
    summKind,      \* how the summarization call ended: none, ok, raised
    execV1,        \* value of v1 when exec started ("n/a" before)
    execPods,      \* the pods when exec started
    synthOut,      \* outcome of the synthesis model call of this request
    prev           \* the last execution of an earlier request that returned

vars ==
    <<v1, global_n, pods, podReason, pc, served, request, command, code,
      raw_result, answer, response, responses, synthCalls, execCalls,
      summCalls, gatewayReads, gatewayWrites, synthKind, execKind, summKind,
      execV1, execPods, synthOut, prev>>

cluster == <<pods, podReason>>
calls == <<synthCalls, execCalls, summCalls, gatewayReads, gatewayWrites>>
kinds == <<synthKind, execKind, summKind, execV1>>
globals == <<v1, global_n>>

(***************************************************************************)
(* The three stages                                                        *)
(***************************************************************************)
\* generate_kubernetes_command without the strip() of line 85
generate_kubernetes_command_NoStrip(query, out) ==
    IF out.raises THEN NoneVal ELSE StrVal(out.content)

\* generate_kubernetes_command, given the outcome of the model call (the
\* query only goes into the prompt)
generate_kubernetes_command(query, out) ==
    IF out.raises THEN NoneVal ELSE StrVal(strip(out.content))

\* CleanCommand without the second replace: only the python fence goes
CleanCommand_PythonFenceOnly(cmd) ==
    CHOOSE c \in {strip(a) : a \in {remove(cmd, FencePython)}} : TRUE

\* line 101, the text execute_generated_command hands to exec():
\* command.replace(FencePython, "").replace(Fence, "").strip(), each call
\* applied to the value of the one before
CleanCommand(cmd) ==
    CHOOSE c \in {strip(b) : b \in {remove(a, Fence) :
                                      a \in {remove(cmd, FencePython)}}} : TRUE

\* exec(command, globals(), local_vars) on the texts of SynthContents:
\* how it ends, the value bound to result, the exception message, the
\* calls made on v1 and the new values of the globals v1 and n and of the
\* pods
ExecEnd(kind, value, msg, reads, writes, g, n, ps) ==
    [kind |-> kind, value |-> value, msg |-> msg, reads |-> reads,
     writes |-> writes, v1 |-> g, n |-> n, pods |-> ps]

exec(src, g, n, ps, reason) ==
    CASE src = <<>> ->
           ExecEnd("unbound", NoneVal, <<>>, 0, 0, g, n, ps)
      [] src = CmdHang ->
           ExecEnd("hang", NoneVal, <<>>, 0, 0, g, n, ps)
      [] src = CmdGlobal ->
           ExecEnd("ok", StrVal(ResetStr), <<>>, 0, 0, "None", n, ps)
      [] src = CmdCounter ->
           ExecEnd("ok", StrVal(str(n + 1)), <<>>, 0, 0, g, n + 1, ps)
      [] src = CmdBadAttr ->
           ExecEnd("attr", NoneVal, <<>>, 0, 0, g, n, ps)
      [] contains(src, GatewayRef) /\ src # CmdBadAttr /\ g = "None" ->
           ExecEnd("attr", NoneVal, <<>>, 0, 0, g, n, ps)
      [] src = CmdCountInt /\ g = "client" ->
           ExecEnd("ok", IntVal(Cardinality(ps)), <<>>, 1, 0, g, n, ps)
      [] src = CmdCountStr /\ g = "client" ->
           ExecEnd("ok", StrVal(str(Cardinality(ps))), <<>>, 1, 0, g, n, ps)
      [] src = CmdNames /\ g = "client" ->
           ExecEnd("ok", ListVal(PodNames(ps)), <<>>, 1, 0, g, n, ps)
      [] src = CmdReason /\ g = "client" ->
           IF 1 \in ps
           THEN ExecEnd("ok", StrVal(reason), <<>>, 1, 0, g, n, ps)
           ELSE ExecEnd("exc", NoneVal, NotFoundMsg, 1, 0, g, n, ps)
      [] src = CmdDelete /\ g = "client" ->
           IF 1 \in ps
           THEN ExecEnd("ok", StrVal(DeletedStr), <<>>, 0, 1, g, n, ps \ {1})
           ELSE ExecEnd("exc", NoneVal, NotFoundMsg, 0, 1, g, n, ps)
      [] src = CmdNoResult /\ g = "client" ->
           ExecEnd("unbound", NoneVal, <<>>, 1, 0, g, n, ps)
      [] src = CmdNotFound /\ g = "client" ->
           ExecEnd("exc", NoneVal, NotFoundMsg, 1, 0, g, n, ps)
      [] OTHER ->
           ExecEnd("exc", NoneVal, SyntaxMsg, 0, 0, g, n, ps)

\* ExecutionResult with the binding looked up under a wrong name, so that
\* the default is returned also when result is bound
ExecutionResult_WrongKey(run) ==
    CASE run.kind \in {"ok", "unbound"} -> StrVal(NoResultReturned)
      [] run.kind = "attr" -> StrVal(MethodNotSupported)
      [] run.kind = "exc" -> StrVal(ErrorExecutingPrefix \o run.msg)

\* lines 106-114, the value execute_generated_command returns after exec
\* ended as run (the test of line 96 is false for every command create_query
\* passes, which it has checked at line 158)
ExecutionResult(run) ==
    CASE run.kind = "ok" -> run.value
      [] run.kind = "unbound" -> StrVal(NoResultReturned)
      [] run.kind = "attr" -> StrVal(MethodNotSupported)
      [] run.kind = "exc" -> StrVal(ErrorExecutingPrefix \o run.msg)

\* format_result_with_gpt, given the outcome of the model call (the query
\* and the result only go into the prompt)
format_result_with_gpt(query, result, out) ==
    IF out.raises THEN StrVal(ErrorFormattingAnswer)
    ELSE StrVal(strip(out.content))

(***************************************************************************)
(* Responses                                                               *)
(***************************************************************************)
NoResponse ==
    [status |-> 0, error |-> NoneVal, query |-> NoneVal, answer |-> NoneVal]

\* ErrorResponse with the status code left out of the return statement, so
\* that the error is sent with the default status 200
ErrorResponse_DefaultStatus(status, e) ==
    [status |-> 200, error |-> e, query |-> NoneVal, answer |-> NoneVal]

\* jsonify({"error": e}), status
ErrorResponse(status, e) ==
    [status |-> status, error |-> e, query |-> NoneVal, answer |-> NoneVal]

\* QueryResponse echoing the trimmed query
QueryResponse_Trimmed(q, a) ==
    IF q.t = "str" /\ a.t = "str"
    THEN [status |-> 200, error |-> NoneVal,
          query |-> StrVal(strip(q.items[1])), answer |-> a]
    ELSE [status |-> 400, error |-> StrVal(StrTypeExpected),
          query |-> NoneVal, answer |-> NoneVal]

\* jsonify(QueryResponse(query=q, answer=a).dict()); the fields are str, and
\* a list for query raises ValidationError, handled at lines 177-179 (the
\* error payload e.errors() is kept as its message text)
QueryResponse(q, a) ==
    IF q.t = "str" /\ a.t = "str"
    THEN [status |-> 200, error |-> NoneVal, query |-> q, answer |-> a]
    ELSE ErrorResponse(400, StrVal(StrTypeExpected))

(***************************************************************************)
(* Startup (lines 38-45) and the /query handler (lines 144-182)            *)
(***************************************************************************)
\* no model call has ended yet
NoOutcome == [raises |-> FALSE, content |-> <<>>]

\* no earlier request has executed a command
NoExecution ==
    [code |-> <<>>, kind |-> "none", result |-> NoneVal, v1 |-> "n/a",
     pods |-> {}]

Init ==
    /\ v1 \in {"client", "None"}
    /\ global_n = 0
    /\ pods = 1..NumPods
    /\ podReason \in PodReasons
    /\ pc = "Idle"
    /\ served = 0
    /\ request = [obj |-> TRUE, query |-> NoneVal]
    /\ command = NoneVal
    /\ code = <<>>
    /\ raw_result = NoneVal
    /\ answer = NoneVal
    /\ response = NoResponse
    /\ responses = 0
    /\ synthCalls = 0
    /\ execCalls = 0
    /\ summCalls = 0
    /\ gatewayReads = 0
    /\ gatewayWrites = 0
    /\ synthKind = "none"
    /\ execKind = "none"
    /\ summKind = "none"
    /\ execV1 = "n/a"
    /\ execPods = {}
    /\ synthOut = NoOutcome
    /\ prev = NoExecution

\* the handler returns: one response is sent
Respond(state, r) ==
    /\ pc' = state
    /\ response' = r
    /\ responses' = responses + 1

\* lines 146-157: a request arrives; the body is read and the query checked
Receive(body) ==
    /\ pc \in {"Idle", "Completed", "Failed"}
    /\ served < MaxRequests
    /\ served' = served + 1
    /\ request' = body
    /\ command' = NoneVal
    /\ code' = <<>>
    /\ raw_result' = NoneVal
    /\ answer' = NoneVal
    /\ execCalls' = 0
    /\ summCalls' = 0
    /\ gatewayReads' = 0
    /\ gatewayWrites' = 0
    /\ synthKind' = "none"
    /\ execKind' = "none"
    /\ summKind' = "none"
    /\ execV1' = "n/a"
    /\ execPods' = {}
    /\ synthOut' = NoOutcome
    /\ prev' = IF execKind \in {"none", "hang"} THEN prev
               ELSE [code |-> code, kind |-> execKind, result |-> raw_result,
                     v1 |-> execV1, pods |-> execPods]
    /\ IF ~body.obj
       THEN \* request_data.get raises AttributeError: lines 180-182
            /\ pc' = "Failed"
            /\ response' = ErrorResponse(500, StrVal(ListHasNoGet))
            /\ responses' = 1
            /\ synthCalls' = 0
       ELSE IF ~truthy(body.query)
       THEN /\ pc' = "Failed"
            /\ response' = ErrorResponse(400, StrVal(NoQueryProvided))
            /\ responses' = 1
            /\ synthCalls' = 0
       ELSE /\ pc' = "Synthesizing"
            /\ response' = NoResponse
            /\ responses' = 0
            /\ synthCalls' = 1
    /\ UNCHANGED <<globals, cluster>>

\* SynthReturn with one retry: when the first synthesis call gives no
\* command, the model is called again instead of failing the request
SynthReturn_Retry(out) ==
    /\ pc = "Synthesizing"
    /\ synthKind' = IF out.raises THEN "raised" ELSE "ok"
    /\ synthOut' = out
    /\ \E cmd \in {generate_kubernetes_command(request.query, out)} :
           /\ command' = cmd
           /\ IF ~truthy(cmd) /\ synthCalls < 2
              THEN /\ synthCalls' = synthCalls + 1
                   /\ UNCHANGED <<pc, code, response, responses>>
              ELSE IF ~truthy(cmd)
              THEN /\ Respond("Failed",
                        ErrorResponse(500, StrVal(FailedToGenerate)))
                   /\ UNCHANGED <<code, synthCalls>>
              ELSE /\ pc' = "Executing"
                   /\ code' = CleanCommand(cmd.items[1])
                   /\ UNCHANGED <<response, responses, synthCalls>>
    /\ UNCHANGED <<globals, cluster, served, request, raw_result, answer,
                   execCalls, summCalls, gatewayReads, gatewayWrites,
                   execKind, summKind, execV1, execPods, prev>>

\* SynthReturn without the test of line 158: the executor is called
\* whatever the synthesizer returned
SynthReturn_Unchecked(out) ==
    /\ pc = "Synthesizing"
    /\ synthKind' = IF out.raises THEN "raised" ELSE "ok"
    /\ synthOut' = out
    /\ \E cmd \in {generate_kubernetes_command(request.query, out)} :
           /\ command' = cmd
           /\ pc' = "Executing"
           /\ code' = IF truthy(cmd) THEN CleanCommand(cmd.items[1]) ELSE <<>>
           /\ UNCHANGED <<response, responses>>
    /\ UNCHANGED <<globals, cluster, served, request, raw_result, answer,
                   calls, execKind, summKind, execV1, execPods, prev>>

\* lines 76-90, 157-163 and 96-102: the synthesis call ends, the command is
\* checked and cleaned, and exec is about to be called
SynthReturn(out) ==
    /\ pc = "Synthesizing"
    /\ synthKind' = IF out.raises THEN "raised" ELSE "ok"
    /\ synthOut' = out
    /\ \E cmd \in {generate_kubernetes_command(request.query, out)} :
           /\ command' = cmd
           /\ IF ~truthy(cmd)
              THEN /\ Respond("Failed",
                        ErrorResponse(500, StrVal(FailedToGenerate)))
                   /\ UNCHANGED code
              ELSE /\ pc' = "Executing"
                   /\ code' = CleanCommand(cmd.items[1])
                   /\ UNCHANGED <<response, responses>>
    /\ UNCHANGED <<globals, cluster, served, request, raw_result, answer,
                   calls, execKind, summKind, execV1, execPods, prev>>

\* lines 104-114 and 163-169: the command is executed and its result checked;
\* an exec that never returns leaves the handler in Executing
Execute ==
    /\ pc = "Executing"
    /\ execKind = "none"
    /\ \E run \in {exec(code, v1, global_n, pods, podReason)} :
       \E result \in {IF run.kind = "hang" THEN NoneVal
                      ELSE ExecutionResult(run)} :
       \E failed \in {ErrorIn(result)} :
           /\ execKind' = run.kind
           /\ execV1' = v1
           /\ execPods' = pods
           /\ execCalls' = execCalls + 1
           /\ gatewayReads' = gatewayReads + run.reads
           /\ gatewayWrites' = gatewayWrites + run.writes
           /\ v1' = run.v1
           /\ global_n' = run.n
           /\ pods' = run.pods
           /\ IF run.kind = "hang"
              THEN UNCHANGED <<pc, raw_result, response, responses, summCalls>>
              ELSE /\ raw_result' = result
                   /\ CASE failed = "TypeError" ->
                             /\ Respond("Failed",
                                  ErrorResponse(500, StrVal(IntNotIterable)))
                             /\ UNCHANGED summCalls
                        [] failed = "yes" ->
                             /\ Respond("Failed",
                                  ErrorResponse(500, result))
                             /\ UNCHANGED summCalls
                        [] failed = "no" ->
                             /\ pc' = "Summarizing"
                             /\ summCalls' = summCalls + 1
                             /\ UNCHANGED <<response, responses>>
    /\ UNCHANGED <<podReason, served, request, command, code, answer,
                   synthCalls, synthKind, summKind, synthOut, prev>>

\* lines 137-142 and 169-182: the summarization call ends; the answer is
\* checked and the response built
SummReturn(out) ==
    /\ pc = "Summarizing"
    /\ summKind' = IF out.raises THEN "raised" ELSE "ok"
    /\ \E ans \in {format_result_with_gpt(request.query, raw_result, out)} :
           /\ answer' = ans
           /\ IF ErrorIn(ans) = "yes"
              THEN Respond("Failed", ErrorResponse(500, ans))
              ELSE \E r \in {QueryResponse(request.query, ans)} :
                     Respond(IF r.status = 200 THEN "Completed" ELSE "Failed",
                             r)
    /\ UNCHANGED <<globals, cluster, served, request, command, code,
                   raw_result, calls, synthKind, execKind, execV1, execPods,
                   synthOut, prev>>

Next ==
    \/ \E body \in Bodies : Receive(body)
    \/ \E out \in ModelOutcomes(SynthContents) : SynthReturn(out)
    \/ Execute
    \/ \E out \in ModelOutcomes(SummContents) : SummReturn(out)

Spec == Init /\ [][Next]_vars

\* the model calls end (with a message or an exception) and the handler's own
\* steps are taken; whether exec returns is decided by the command
FairSpec ==
    /\ Spec
    /\ WF_vars(\E out \in ModelOutcomes(SynthContents) : SynthReturn(out))
    /\ WF_vars(Execute)
    /\ WF_vars(\E out \in ModelOutcomes(SummContents) : SummReturn(out))

(***************************************************************************)
(* Claims                                                                  *)
(***************************************************************************)
\* the handler has returned
Responded == pc \in {"Completed", "Failed"}

\* C1: when the executed expression references an operation outside the
\* read-only capability set (a delete-style call on v1), the executor ends in
\* a failure and no operation of v1 was invoked.
C1_DisallowedOperationRejected ==
    (execKind # "none" /\ contains(code, MutatingCall))
        => /\ execKind \in {"attr", "exc"}
           /\ gatewayReads = 0
           /\ gatewayWrites = 0

\* C2: when a stage fails (synthesis raises or returns nothing, the executed
\* expression raises any exception, summarization raises), the request is
\* Failed with an error response, no later stage was invoked and no answer
\* is returned.
C2_StageFailureFailsRequest ==
    /\ (synthKind = "raised" \/ (synthKind = "ok" /\ ~truthy(command)))
          => /\ pc = "Failed"
             /\ response.status \in {400, 500}
             /\ execCalls = 0
             /\ summCalls = 0
    /\ execKind \in {"attr", "exc"}
          => /\ pc = "Failed"
             /\ response.status \in {400, 500}
             /\ summCalls = 0
    /\ summKind = "raised"
          => /\ pc = "Failed"
             /\ response.status \in {400, 500}

\* C3: a request whose question is empty or missing is answered with the
\* 400 'No query provided' error and no external call is made for it.
C3_EmptyQuestionInvalidRequest ==
    (served > 0 /\ (~request.obj \/ request.query = NoneVal
                      \/ request.query = StrVal(<<>>)))
        => /\ pc = "Failed"
           /\ response = ErrorResponse(400, StrVal(NoQueryProvided))
           /\ synthCalls = 0
           /\ execCalls = 0
           /\ summCalls = 0
           /\ gatewayReads + gatewayWrites = 0

\* C4: a request whose question is empty after trimming is rejected as an
\* invalid request (400) and the synthesizer is never called for it.
C4_BlankQuestionRejected ==
    (served > 0 /\ request.obj /\ request.query.t = "str"
       /\ strip(request.query.items[1]) = <<>>)
        => /\ pc = "Failed"
           /\ response.status = 400
           /\ synthCalls = 0

\* C5: when the executed expression completes without binding result, the
\* request is Failed and the summarizer is not invoked.
C5_NoResultFails ==
    execKind = "unbound" => (pc = "Failed" /\ summCalls = 0)

\* C6: when v1 is None, a request that executes an expression against the
\* gateway is Failed; it never reaches Summarizing or Completed.
C6_UnavailableFails ==
    (execKind # "none" /\ execV1 = "None"
       /\ contains(code, GatewayRef))
        => (pc = "Failed" /\ summCalls = 0)

\* C7: when the expression executes successfully and binds result to a
\* string or a sequence of strings, the summarizer is invoked with that
\* value, whatever text the value contains.
C7_SuccessValueSummarized ==
    (execKind = "ok" /\ raw_result.t \in {"str", "list"})
        => (summCalls = 1 /\ pc \in {"Summarizing", "Completed", "Failed"}
              /\ (pc = "Failed" => summKind # "none"))

\* C8: a request whose expression counts the pods of the namespace (as an
\* integer or as its string form), with 3 pods in the cluster, reaches the
\* summarizer, and when the summarizer returns "3" it is Completed with
\* answer "3".
C8_CountScenario ==
    (Responded /\ request.query = StrVal(QuestionCount) /\ command.t = "str"
       /\ code \in {CmdCountInt, CmdCountStr}
       /\ execV1 = "client" /\ Cardinality(pods) = 3)
        => /\ summCalls = 1
           /\ answer = StrVal(AnswerThree)
                 => (pc = "Completed"
                       /\ response.answer = StrVal(AnswerThree))

\* C9: when synthesis, execution and summarization all succeed and the
\* summarizer returns a non-empty string, the request is Completed and the
\* answer of the response is that string.
C9_SummaryAcceptedAsIs ==
    (synthKind = "ok" /\ execKind = "ok" /\ summKind = "ok"
       /\ answer.items[1] # <<>>)
        => (pc = "Completed" /\ response.status = 200
              /\ response.answer = answer)

\* C10: a request that is in Synthesizing, Executing or Summarizing
\* eventually reaches Completed or Failed.
C10_RequestTerminates ==
    (pc \in {"Synthesizing", "Executing", "Summarizing"}) ~> Responded

\* C11: processing a request leaves the process-wide state unchanged: no
\* step changes the gateway handle v1 or a module global.
C11_ProcessStateUnchanged ==
    [][v1' = v1 /\ global_n' = global_n]_vars

\* C12: when the same command text is executed for two requests, both
\* executions starting with the same pods in the cluster and the same
\* gateway handle, they end the same way and return the same value.
C12_ExecutionIdempotent ==
    (prev.kind # "none" /\ execKind \notin {"none", "hang"}
       /\ prev.code = code /\ prev.pods = execPods /\ prev.v1 = execV1)
        => (prev.kind = execKind /\ prev.result = raw_result)

\* C13: when the command runs successfully and binds to result the value
\* the gateway returned (the terminated reason of pod-1, the number of pods
\* as an integer or as a string, the list of pod names),
\* execute_generated_command returns exactly that value.
C13_ResultReturnedExactly ==
    execKind = "ok" =>
        /\ code = CmdReason => raw_result = StrVal(podReason)
        /\ code = CmdCountInt => raw_result = IntVal(Cardinality(execPods))
        /\ code = CmdCountStr
              => raw_result = StrVal(str(Cardinality(execPods)))
        /\ code = CmdNames => raw_result = ListVal(PodNames(execPods))

\* a list of several pod names has been returned by the executor
C13_Witness ==
    /\ execKind = "ok"
    /\ code = CmdNames
    /\ raw_result.t = "list"
    /\ Len(raw_result.items) >= 2

\* C14: within one request the synthesis model call, the exec of the
\* command and the summarization model call are each made at most once.
C14_NoStageRetried ==
    synthCalls <= 1 /\ execCalls <= 1 /\ summCalls <= 1

\* a request has failed in its last stage, after each stage ran once
C14_Witness ==
    /\ pc = "Failed"
    /\ summKind = "raised"
    /\ synthCalls = 1
    /\ execCalls = 1
    /\ summCalls = 1

\* messages of the exceptions raised inside the stages and the handler
ExceptionMessages ==
    {ListHasNoGet, IntNotIterable, NotFoundMsg, SyntaxMsg, StrTypeExpected}

\* C15: the error payload of a Failed request contains the message of no
\* exception raised inside a stage or inside the handler.
C15_NoRawExceptionText ==
    pc = "Failed" =>
        \A i \in 1..Len(response.error.items) :
            \A m \in ExceptionMessages :
                ~contains(response.error.items[i], m)

\* C16: the stages run in order: a command is executed only after the
\* synthesizer returned a non-empty command for this request, the summarizer
\* is called only after exec has returned for this request, at most one
\* response is sent, and once it is sent the only step is the arrival of
\* the next request.
C16_StageOrder ==
    /\ [](execCalls > 0 => (synthKind = "ok" /\ truthy(command)))
    /\ [](summCalls > 0
            => (execCalls = 1 /\ execKind \in {"ok", "unbound", "attr", "exc"}))
    /\ [](responses <= 1 /\ (responses = 1 <=> Responded))
    /\ [][Responded => served' = served + 1]_vars

\* a request has gone through the three stages and been answered
C16_Witness ==
    /\ pc = "Completed"
    /\ synthCalls = 1
    /\ execCalls = 1
    /\ summCalls = 1
    /\ responses = 1

\* C17 as stated: the command returned by generate_kubernetes_command
\* contains no fence marker.
C17_SynthesizerStripsFences ==
    command.t = "str" => ~contains(command.items[1], Fence)

\* C17 as amended: the fence markers are removed by
\* execute_generated_command, so the text handed to exec contains none
\* (generate_kubernetes_command only trims whitespace).
C17_ExecutedTextHasNoFence ==
    (synthKind = "ok" /\ truthy(command)) => ~contains(code, Fence)

\* a fenced command has been returned by the synthesizer and cleaned
C17_Witness ==
    /\ pc = "Executing"
    /\ command = StrVal(Fenced(CmdCountStr))
    /\ code = CmdCountStr

\* C18: when the synthesis model call returns a message that is empty or
\* only whitespace, the request is Failed with the 500 'Failed to generate
\* command' error and neither exec nor the summarizer is called.
C18_EmptySynthesisFails ==
    (synthKind = "ok"
       /\ \A i \in 1..Len(synthOut.content) :
              synthOut.content[i] \in Whitespace)
        => /\ pc = "Failed"
           /\ response = ErrorResponse(500, StrVal(FailedToGenerate))
           /\ execCalls = 0
           /\ summCalls = 0
           /\ gatewayReads + gatewayWrites = 0

\* the model has answered a question with whitespace only
C18_Witness ==
    /\ synthKind = "ok"
    /\ synthOut.content = QuestionBlank
    /\ pc = "Failed"
    /\ responses = 1

C20_QuestionEchoed ==
    /\ [](pc = "Completed" => response.query = request.query)
    /\ [][served' = served => request' = request]_vars

\* a question with surrounding whitespace has been answered
C20_Witness ==
    /\ pc = "Completed"
    /\ request.query = StrVal(QuestionBlank)
    /\ response.status = 200

=============================================================================
